---- MODULE Spec2Model ----
(***************************************************************************)
(* Lung cancer detection API: the image-to-prediction pipeline             *)
(* (app/services/image_processor.py), the /predict, /health and            *)
(* /model/info endpoints (app/api/v1/endpoints.py), the response schemas   *)
(* (app/schemas/prediction.py), the settings (app/core/config.py) and the  *)
(* exception handlers (app/main.py).                                       *)
(*                                                                         *)
(* Conventions.  An optional value (Python None) is the empty sequence,    *)
(* a present value x is <<x>>.  An exception is a record [cls, msg].       *)
(* Probabilities and confidences are fixed-point numbers in tenths         *)
(* (7 stands for 0.7, 10 for 1.0).  A tensor value level/255 is kept as    *)
(* the pair num/den.  Wall-clock values (timestamps, uptime, processing    *)
(* time) are left out: no branch of the code depends on them.              *)
(***************************************************************************)
EXTENDS Integers, Sequences, FiniteSets, TLC

VARIABLES
    image_processor,   \* the global ImageProcessor instance: model, model_loaded, loads
    req,               \* the /predict request being handled and its position
    last_get,          \* the last answer of GET /health or GET /model/info
    peer               \* a second /predict request, handled concurrently with req

vars == <<image_processor, req, last_get, peer>>

None == <<>>
Some(x) == <<x>>

(***************************************************************************)
(* Settings (app/core/config.py)                                           *)
(***************************************************************************)
MAX_FILE_SIZE == 50 * 1024 * 1024

\* "image/jpeg,image/png,image/tiff,image/bmp", as its comma-separated items
ALLOWED_IMAGE_TYPES == <<"image/jpeg", "image/png", "image/tiff", "image/bmp">>

\* "224,224", as its comma-separated items
MODEL_INPUT_SIZE == <<224, 224>>

CONFIDENCE_THRESHOLD == 5

\* the items of the list, as a set (membership test of validate_image)
get_allowed_image_types == {ALLOWED_IMAGE_TYPES[i] : i \in DOMAIN ALLOWED_IMAGE_TYPES}

\* (width, height)
get_model_input_size ==
    IF Len(MODEL_INPUT_SIZE) = 2
    THEN <<MODEL_INPUT_SIZE[1], MODEL_INPUT_SIZE[2]>>
    ELSE <<224, 224>>

(***************************************************************************)
(* Schema constraints (app/schemas/prediction.py)                          *)
(***************************************************************************)
ConfidenceMin == 0
ConfidenceMax == 10

(***************************************************************************)
(* Inputs                                                                  *)
(***************************************************************************)
\* longest model output vector drawn
MaxOutLen == 4

Filenames == {"", "scan.jpg"}

ContentTypes == {"", "image/jpeg", "image/bmp", "image/gif", "text/plain"}

NoPixels == [format |-> "", mode |-> "", width |-> 0, height |-> 0, level |-> 0]

\* The uploaded bytes, by what the decoder makes of them: nothing at all,
\* bytes that are no image container, an image whose header parses but whose
\* pixel data is cut short, or a complete image of one grey level.
Pixels ==
    [format : {"JPEG", "PNG"}, mode : {"L", "RGB"},
     width : {512}, height : {512, 64}, level : {0, 255}]

Payloads ==
    {[kind |-> "empty", size |-> 0, pix |-> NoPixels]}
    \cup [kind : {"text"}, size : {25, MAX_FILE_SIZE + 1}, pix : {NoPixels}]
    \cup [kind : {"truncated"}, size : {25}, pix : {p \in Pixels : p.format = "JPEG" /\ p.height = 512 /\ p.level = 0}]
    \cup [kind : {"image"}, size : {25, MAX_FILE_SIZE, MAX_FILE_SIZE + 1}, pix : Pixels]

ProbVals == {-1, 0, 1, 2, 7, 10, 11}

\* what keras.models.load_model does at construction
LoadOutcomes == {"ok", "ImportError", "OSError"}

Exc(cls, msg) == [cls |-> cls, msg |-> msg]
NoExc == Exc("", "")

\* what model.predict does on one call: a raised exception or the output
\* vector of the single example
ForwardOutcomes ==
    [kind : {"raise"},
     exc : {Exc("ValueError", "incompatible input shape"),
            Exc("RuntimeError", "graph execution failed"),
            Exc("ResourceExhaustedError", "OOM when allocating tensor")},
     vec : {<<>>}]
    \cup [kind : {"return"}, exc : {NoExc}, vec : [1..3 -> ProbVals]]
    \cup [kind : {"return"}, exc : {NoExc},
          vec : UNION {[1..n -> {0, 5, 10}] : n \in (2..MaxOutLen) \ {3}}]

NoForward == [kind |-> "none", exc |-> NoExc, vec |-> <<>>]

(***************************************************************************)
(* Exception classes: which except clause catches which exception          *)
(***************************************************************************)
\* pydantic's ValidationError derives from ValueError
IsValueError(e) == e.cls \in {"ValueError", "ValidationError"}

IsRuntimeError(e) == e.cls \in {"RuntimeError"}

(***************************************************************************)
(* ImageProcessor (app/services/image_processor.py)                        *)
(***************************************************************************)
\* _load_model on a fresh instance: the handle and the flag are set only
\* when both the import and load_model succeed
LoadModel(self, outcome) ==
    IF outcome = "ok"
    THEN [self EXCEPT !.model = Some("keras_model"), !.model_loaded = TRUE,
                      !.loads = self.loads + 1]
    ELSE [self EXCEPT !.model_loaded = FALSE, !.loads = self.loads + 1]

\* __init__
NewImageProcessor(outcome) ==
    LoadModel([model |-> None, model_loaded |-> FALSE, loads |-> 0], outcome)

\* mutant: the allow-list membership test is dropped
validate_image_AnyType(content_type, file_size) ==
    IF content_type = ""
    THEN FALSE
    ELSE IF file_size > MAX_FILE_SIZE
    THEN FALSE
    ELSE TRUE

\* mutant: a payload of exactly the maximum size is refused
validate_image_OffByOne(content_type, file_size) ==
    IF content_type = "" \/ content_type \notin get_allowed_image_types
    THEN FALSE
    ELSE IF file_size >= MAX_FILE_SIZE
    THEN FALSE
    ELSE TRUE

validate_image(content_type, file_size) ==
    IF content_type = "" \/ content_type \notin get_allowed_image_types
    THEN FALSE
    ELSE IF file_size > MAX_FILE_SIZE
    THEN FALSE
    ELSE TRUE

\* PIL.Image.open on the uploaded bytes: the header is parsed, the pixel
\* data is not read yet
ImageOpen(image_data) ==
    IF image_data.kind \in {"image", "truncated"}
    THEN [exc |-> NoExc,
          val |-> Some([format |-> image_data.pix.format,
                        mode |-> image_data.pix.mode,
                        size |-> <<image_data.pix.width, image_data.pix.height>>,
                        level |-> image_data.pix.level,
                        complete |-> image_data.kind = "image"])]
    ELSE [exc |-> Exc("UnidentifiedImageError", "cannot identify image file"),
          val |-> None]

getbands(image) == IF image.mode = "RGB" THEN <<"R", "G", "B">> ELSE <<"L">>

extract_image_info(image) ==
    [width |-> image.size[1],
     height |-> image.size[2],
     channels |-> IF getbands(image) # <<>> THEN Len(getbands(image)) ELSE 0,
     format |-> image.format]

\* np.array(image): reads the pixel data, rows first
NpArray(image) ==
    IF ~image.complete
    THEN [exc |-> Exc("OSError", "image file is truncated"), val |-> None]
    ELSE [exc |-> NoExc,
          val |-> Some([shape |-> IF image.mode = "RGB"
                                  THEN <<image.size[2], image.size[1], 3>>
                                  ELSE <<image.size[2], image.size[1]>>,
                        level |-> image.level])]

\* every sample of the array equals level
calculate_image_stats(image_array, file_size) ==
    [mean_intensity |-> image_array.level,
     std_intensity |-> 0,
     shape |-> image_array.shape,
     size_bytes |-> file_size]

\* convert('L') of a grey RGB pixel: (19595 R + 38470 G + 7471 B + 32768) / 65536
ConvertL(image) ==
    IF image.mode # "L"
    THEN [image EXCEPT !.mode = "L",
              !.level = (19595 * image.level + 38470 * image.level
                         + 7471 * image.level + 32768) \div 65536]
    ELSE image

\* resize of a one-level image: the filter weights sum to one
Resize(image, target_size) == [image EXCEPT !.size = target_size]

\* mutant: the resize to the model input size is left out
preprocess_image_NoResize(image) ==
    LET grey == ConvertL(image)
    IN  [shape |-> <<1, grey.size[2], grey.size[1]>>,
         num |-> grey.level,
         den |-> 255]

preprocess_image(image) ==
    LET grey == ConvertL(image)
        resized == Resize(grey, get_model_input_size)
    IN  [shape |-> <<1, resized.size[2], resized.size[1]>>,
         num |-> resized.level,
         den |-> 255]

RECURSIVE ArgMaxFrom(_, _, _)
\* np.argmax: scan left to right, keep the first strictly greater entry
ArgMaxFrom(v, i, best) ==
    IF i > Len(v) THEN best
    ELSE IF v[i] > v[best] THEN ArgMaxFrom(v, i + 1, i)
    ELSE ArgMaxFrom(v, i + 1, best)

RECURSIVE ArgMaxLastFrom(_, _, _)
ArgMaxLastFrom(v, i, best) ==
    IF i > Len(v) THEN best
    ELSE IF v[i] >= v[best] THEN ArgMaxLastFrom(v, i + 1, i)
    ELSE ArgMaxLastFrom(v, i + 1, best)

\* mutant: a later entry equal to the best so far replaces it
ArgMax_LastWins(v) == ArgMaxLastFrom(v, 2, 1)

ArgMax(v) == ArgMaxFrom(v, 2, 1)

NpMax(v) == v[ArgMax(v)]

class_labels == <<"Benign Case", "Malignant Case", "Normal Case">>

\* mutant: the third entry of the dictionary repeats the second output
Probabilities_Repeated(class_probs) ==
    [l \in {"Benign Case", "Malignant Case", "Normal Case"} |->
        IF l = "Benign Case" THEN class_probs[1]
        ELSE IF l = "Malignant Case" THEN class_probs[2]
        ELSE class_probs[2]]

\* the probabilities dictionary of predict
Probabilities(class_probs) ==
    [l \in {"Benign Case", "Malignant Case", "Normal Case"} |->
        IF l = "Benign Case" THEN class_probs[1]
        ELSE IF l = "Malignant Case" THEN class_probs[2]
        ELSE class_probs[3]]

\* mutant: an output that has not exactly three entries is refused
PredictLoaded_ExactlyThree(fwd) ==
    IF fwd.kind = "raise"
    THEN [exc |-> fwd.exc, val |-> None, called |-> TRUE]
    ELSE IF Len(fwd.vec) # 3
    THEN [exc |-> Exc("IndexError", "unexpected output width"),
          val |-> None, called |-> TRUE]
    ELSE [exc |-> NoExc,
          val |-> Some([prediction |-> class_labels[ArgMax(fwd.vec)],
                        confidence |-> NpMax(fwd.vec),
                        probabilities |-> Probabilities(fwd.vec)]),
          called |-> TRUE]

\* predict from model.predict on, where model.predict behaves as fwd
PredictLoaded(fwd) ==
    IF fwd.kind = "raise"
    THEN [exc |-> fwd.exc, val |-> None, called |-> TRUE]
    ELSE LET class_probs == fwd.vec
             predicted_class_idx == ArgMax(class_probs)
             confidence == NpMax(class_probs)
         IN  IF predicted_class_idx > Len(class_labels)
             THEN [exc |-> Exc("IndexError", "list index out of range"),
                   val |-> None, called |-> TRUE]
             ELSE IF Len(class_probs) < 3
             THEN [exc |-> Exc("IndexError", "index out of bounds"),
                   val |-> None, called |-> TRUE]
             ELSE [exc |-> NoExc,
                   val |-> Some([prediction |-> class_labels[predicted_class_idx],
                                 confidence |-> confidence,
                                 probabilities |-> Probabilities(class_probs)]),
                   called |-> TRUE]

\* mutant: model.predict is called without looking at model_loaded
predict_Unchecked(self, preprocessed_image, fwd) == PredictLoaded(fwd)

\* predict(preprocessed_image); called tells whether model.predict was invoked
predict(self, preprocessed_image, fwd) ==
    IF ~self.model_loaded
    THEN [exc |-> Exc("RuntimeError", "Model not loaded"), val |-> None, called |-> FALSE]
    ELSE PredictLoaded(fwd)

\* mutant: the constraints on confidence are dropped
PredictionResult_Unvalidated(prediction_results) ==
    [exc |-> NoExc, val |-> Some(prediction_results)]

\* PredictionResult(**prediction_results): Field(ge=0.0, le=1.0) on confidence
PredictionResult(prediction_results) ==
    IF prediction_results.confidence >= ConfidenceMin
       /\ prediction_results.confidence <= ConfidenceMax
    THEN [exc |-> NoExc, val |-> Some(prediction_results)]
    ELSE [exc |-> Exc("ValidationError", "1 validation error for PredictionResult"),
          val |-> None]

(***************************************************************************)
(* HTTP boundary (app/api/v1/endpoints.py, app/main.py)                    *)
(***************************************************************************)
\* http_exception_handler: the JSON answer to a raised HTTPException
http_exception_handler(status_code, detail) ==
    [code |-> status_code, status |-> "error", error_code |-> status_code,
     message |-> detail, body |-> None]

\* the except clauses of predict_image, in their order, for an exception e
\* raised inside the try block
PredictExcept(e) ==
    IF IsValueError(e)
    THEN http_exception_handler(400, <<"Invalid image file: ", e.msg>>)
    ELSE IF IsRuntimeError(e)
    THEN http_exception_handler(503, <<"Model service unavailable: ", e.msg>>)
    ELSE http_exception_handler(500, <<"Internal server error during image processing">>)

\* PredictionResponse(**result), answered with 200
PredictionResponse(result) ==
    [code |-> 200, status |-> result.status, error_code |-> 0,
     message |-> <<result.message>>, body |-> Some(result)]

(***************************************************************************)
(* The /predict request and the steps of its handling                      *)
(***************************************************************************)
EmptyPayload == [kind |-> "empty", size |-> 0, pix |-> NoPixels]

IdleRequest ==
    [pc |-> "idle", filename |-> "", content_type |-> "", image_data |-> EmptyPayload,
     trace |-> <<>>, image |-> None, image_info |-> None, image_array |-> None,
     image_stats |-> None, preprocessed_image |-> None, forward |-> NoForward,
     forward_called |-> FALSE, prediction_results |-> None, exc |-> NoExc,
     response |-> None]

Ret(self, q) == [self |-> self, q |-> q]

\* an exception e leaves the try block of predict_image
RaiseInTry(q, e) ==
    [q EXCEPT !.pc = "done", !.exc = e, !.response = Some(PredictExcept(e))]

\* mutant: the content-type guard comes before the filename guard
PredictImageBegin_TypeFirst(self, filename, content_type, image_data) ==
    LET q == [IdleRequest EXCEPT !.filename = filename,
                                 !.content_type = content_type,
                                 !.image_data = image_data]
    IN  IF content_type = ""
        THEN Ret(self, [q EXCEPT !.pc = "done",
                          !.exc = Exc("HTTPException", "Unable to determine file type"),
                          !.response = Some(http_exception_handler(400, <<"Unable to determine file type">>))])
        ELSE IF filename = ""
        THEN Ret(self, [q EXCEPT !.pc = "done",
                          !.exc = Exc("HTTPException", "No file provided"),
                          !.response = Some(http_exception_handler(400, <<"No file provided">>))])
        ELSE Ret(self, [q EXCEPT !.pc = "read"])

\* predict_image up to the try block: the filename and content-type guards
PredictImageBegin(self, filename, content_type, image_data) ==
    LET q == [IdleRequest EXCEPT !.filename = filename,
                                 !.content_type = content_type,
                                 !.image_data = image_data]
    IN  IF filename = ""
        THEN Ret(self, [q EXCEPT !.pc = "done",
                          !.exc = Exc("HTTPException", "No file provided"),
                          !.response = Some(http_exception_handler(400, <<"No file provided">>))])
        ELSE IF content_type = ""
        THEN Ret(self, [q EXCEPT !.pc = "done",
                          !.exc = Exc("HTTPException", "Unable to determine file type"),
                          !.response = Some(http_exception_handler(400, <<"Unable to determine file type">>))])
        ELSE Ret(self, [q EXCEPT !.pc = "read"])

\* await file.read() and the empty-file guard, both inside the try block
ReadStep(self, q) ==
    IF q.image_data.size = 0
    THEN Ret(self, RaiseInTry(q, Exc("HTTPException", "Empty file provided")))
    ELSE Ret(self, [q EXCEPT !.pc = "validate"])

\* mutant: process_image looks at model_loaded before anything else
ValidateStep_ModelFirst(self, q) ==
    LET file_size == q.image_data.size
        t == Append(q.trace, "validate")
    IN  IF ~self.model_loaded
        THEN Ret(self, RaiseInTry([q EXCEPT !.trace = t],
                                  Exc("RuntimeError", "Model not loaded")))
        ELSE IF ~validate_image(q.content_type, file_size)
        THEN Ret(self, RaiseInTry([q EXCEPT !.trace = t],
                                  Exc("ValueError", "Invalid image file")))
        ELSE Ret(self, [q EXCEPT !.trace = t, !.pc = "decode"])

\* process_image: file_size and the validate_image guard
ValidateStep(self, q) ==
    LET file_size == q.image_data.size
        t == Append(q.trace, "validate")
    IN  IF ~validate_image(q.content_type, file_size)
        THEN Ret(self, RaiseInTry([q EXCEPT !.trace = t],
                                  Exc("ValueError", "Invalid image file")))
        ELSE Ret(self, [q EXCEPT !.trace = t, !.pc = "decode"])

\* mutant: a failed decode is tried once more before the call ends
DecodeStep_Retry(self, q) ==
    LET r == ImageOpen(q.image_data)
        t == Append(q.trace, "decode")
    IN  IF r.exc # NoExc
        THEN IF Len(q.trace) < 2
             THEN Ret(self, [q EXCEPT !.trace = t])
             ELSE Ret(self, RaiseInTry([q EXCEPT !.trace = t], r.exc))
        ELSE Ret(self, [q EXCEPT !.trace = t, !.image = r.val, !.pc = "extract_image_info"])

\* mutant: a decoded format that is not the declared one is refused
DecodeStep_RejectMismatch(self, q) ==
    LET r == ImageOpen(q.image_data)
        t == Append(q.trace, "decode")
        declared == IF q.content_type = "image/jpeg" THEN "JPEG"
                    ELSE IF q.content_type = "image/png" THEN "PNG"
                    ELSE IF q.content_type = "image/tiff" THEN "TIFF"
                    ELSE "BMP"
    IN  IF r.exc # NoExc
        THEN Ret(self, RaiseInTry([q EXCEPT !.trace = t], r.exc))
        ELSE IF r.val[1].format # declared
        THEN Ret(self, RaiseInTry([q EXCEPT !.trace = t],
                                  Exc("ValueError", "format does not match content type")))
        ELSE Ret(self, [q EXCEPT !.trace = t, !.image = r.val, !.pc = "extract_image_info"])

\* process_image: Image.open
DecodeStep(self, q) ==
    LET r == ImageOpen(q.image_data)
        t == Append(q.trace, "decode")
    IN  IF r.exc # NoExc
        THEN Ret(self, RaiseInTry([q EXCEPT !.trace = t], r.exc))
        ELSE Ret(self, [q EXCEPT !.trace = t, !.image = r.val, !.pc = "extract_image_info"])

\* process_image: extract_image_info
ExtractInfoStep(self, q) ==
    Ret(self, [q EXCEPT !.trace = Append(q.trace, "extract_image_info"),
                        !.image_info = Some(extract_image_info(q.image[1])),
                        !.pc = "calculate_image_stats"])

\* mutant: the statistics are taken from the grey, resized image
CalcStatsStep_AfterResize(self, q) ==
    LET r == NpArray(q.image[1])
        t == Append(q.trace, "calculate_image_stats")
        small == Resize(ConvertL(q.image[1]), get_model_input_size)
    IN  IF r.exc # NoExc
        THEN Ret(self, RaiseInTry([q EXCEPT !.trace = t], r.exc))
        ELSE Ret(self, [q EXCEPT !.trace = t, !.image_array = r.val,
                          !.image_stats = Some(calculate_image_stats(
                              [shape |-> <<small.size[2], small.size[1]>>, level |-> small.level],
                              q.image_data.size)),
                          !.pc = "preprocess"])

\* process_image: np.array(image) and calculate_image_stats
CalcStatsStep(self, q) ==
    LET r == NpArray(q.image[1])
        t == Append(q.trace, "calculate_image_stats")
    IN  IF r.exc # NoExc
        THEN Ret(self, RaiseInTry([q EXCEPT !.trace = t], r.exc))
        ELSE Ret(self, [q EXCEPT !.trace = t, !.image_array = r.val,
                          !.image_stats = Some(calculate_image_stats(r.val[1], q.image_data.size)),
                          !.pc = "preprocess"])

\* mutant: an upload declared as BMP is taken to be grey already and keeps
\* its bands
PreprocessStep_ByDeclaredType(self, q) ==
    LET t == preprocess_image(q.image[1])
    IN  Ret(self, [q EXCEPT !.trace = Append(q.trace, "preprocess"),
                      !.preprocessed_image =
                          Some(IF q.content_type = "image/bmp" /\ q.image[1].mode # "L"
                               THEN [t EXCEPT !.shape = Append(t.shape, 3)]
                               ELSE t),
                      !.pc = "predict"])

\* process_image: preprocess_image
PreprocessStep(self, q) ==
    Ret(self, [q EXCEPT !.trace = Append(q.trace, "preprocess"),
                        !.preprocessed_image = Some(preprocess_image(q.image[1])),
                        !.pc = "predict"])

\* the request after process_image's call of predict
PredictCall(self, q, fwd) ==
    LET r == predict(self, q.preprocessed_image[1], fwd)
        q1 == [q EXCEPT !.trace = Append(q.trace, "predict"),
                        !.forward_called = r.called,
                        !.forward = IF r.called THEN fwd ELSE NoForward]
    IN  IF r.exc # NoExc
        THEN RaiseInTry(q1, r.exc)
        ELSE [q1 EXCEPT !.prediction_results = r.val, !.pc = "assemble"]

\* mutant: a request that finds the model missing loads it again
PredictStep_Reload(self, q, fwd) ==
    Ret(IF ~self.model_loaded THEN LoadModel(self, "ok") ELSE self,
        PredictCall(self, q, fwd))

\* mutant: after a failed forward pass the processor marks its model unusable
PredictStep_DropOnFailure(self, q, fwd) ==
    Ret(IF self.model_loaded /\ fwd.kind = "raise"
        THEN [self EXCEPT !.model_loaded = FALSE]
        ELSE self,
        PredictCall(self, q, fwd))

\* process_image: predict, where model.predict behaves as fwd
PredictStep(self, q, fwd) == Ret(self, PredictCall(self, q, fwd))

\* process_image: PredictionResult(**prediction_results) and the result
\* dictionary; predict_image: PredictionResponse(**result)
AssembleStep(self, q) ==
    LET r == PredictionResult(q.prediction_results[1])
        t == Append(q.trace, "assemble")
    IN  IF r.exc # NoExc
        THEN Ret(self, RaiseInTry([q EXCEPT !.trace = t], r.exc))
        ELSE Ret(self, [q EXCEPT !.trace = t, !.pc = "done",
                 !.response = Some(PredictionResponse(
                     [status |-> "success",
                      filename |-> q.filename,
                      image_info |-> q.image_info[1],
                      image_stats |-> q.image_stats[1],
                      prediction_result |-> r.val[1],
                      message |-> "Image processed successfully"]))])

(***************************************************************************)
(* GET /health and GET /model/info                                         *)
(***************************************************************************)
get_health_status(self) ==
    [model_loaded |-> self.model_loaded,
     supported_formats |-> ALLOWED_IMAGE_TYPES,
     max_file_size_mb |-> MAX_FILE_SIZE \div (1024 * 1024),
     model_input_size |-> get_model_input_size]

\* mutant: the service reports itself unhealthy while the model is missing
health_check_Degraded(self) ==
    LET processor_health == get_health_status(self)
    IN  IF processor_health.model_loaded
        THEN Ret(self, [endpoint |-> "/health", code |-> 200,
                        body |-> [status |-> "healthy",
                                  service |-> "Lung Cancer Detection API",
                                  version |-> "1.0.0",
                                  timestamp |-> "now",
                                  model_loaded |-> TRUE]])
        ELSE Ret(self, [endpoint |-> "/health", code |-> 503,
                        body |-> [status |-> "unhealthy",
                                  service |-> "Lung Cancer Detection API",
                                  version |-> "1.0.0",
                                  timestamp |-> "now",
                                  model_loaded |-> FALSE]])

health_check(self) ==
    LET processor_health == get_health_status(self)
    IN  Ret(self, [endpoint |-> "/health", code |-> 200,
                   body |-> [status |-> "healthy",
                             service |-> "Lung Cancer Detection API",
                             version |-> "1.0.0",
                             timestamp |-> "now",
                             model_loaded |-> processor_health.model_loaded]])

get_model_info(self) ==
    LET health_status == get_health_status(self)
    IN  Ret(self, [endpoint |-> "/model/info", code |-> 200,
                   body |-> [model_loaded |-> health_status.model_loaded,
                             supported_formats |-> health_status.supported_formats,
                             max_file_size_mb |-> health_status.max_file_size_mb,
                             model_input_size |-> health_status.model_input_size,
                             confidence_threshold |-> CONFIDENCE_THRESHOLD]])

(***************************************************************************)
(* State machine                                                           *)
(***************************************************************************)
\* the module-level instance has been constructed, no request has arrived
Init ==
    /\ \E outcome \in LoadOutcomes : image_processor = NewImageProcessor(outcome)
    /\ req = IdleRequest
    /\ last_get = None
    /\ peer = IdleRequest

\* a POST /predict arrives
Receive ==
    /\ req.pc = "idle"
    /\ \E filename \in Filenames, content_type \in ContentTypes, image_data \in Payloads :
          LET r == PredictImageBegin(image_processor, filename, content_type, image_data)
          IN  image_processor' = r.self /\ req' = r.q
    /\ UNCHANGED <<last_get, peer>>

ReadFile ==
    /\ req.pc = "read"
    /\ LET r == ReadStep(image_processor, req)
       IN  image_processor' = r.self /\ req' = r.q
    /\ UNCHANGED <<last_get, peer>>

Validate ==
    /\ req.pc = "validate"
    /\ LET r == ValidateStep(image_processor, req)
       IN  image_processor' = r.self /\ req' = r.q
    /\ UNCHANGED <<last_get, peer>>

Decode ==
    /\ req.pc = "decode"
    /\ LET r == DecodeStep(image_processor, req)
       IN  image_processor' = r.self /\ req' = r.q
    /\ UNCHANGED <<last_get, peer>>

ExtractInfo ==
    /\ req.pc = "extract_image_info"
    /\ LET r == ExtractInfoStep(image_processor, req)
       IN  image_processor' = r.self /\ req' = r.q
    /\ UNCHANGED <<last_get, peer>>

CalcStats ==
    /\ req.pc = "calculate_image_stats"
    /\ LET r == CalcStatsStep(image_processor, req)
       IN  image_processor' = r.self /\ req' = r.q
    /\ UNCHANGED <<last_get, peer>>

Preprocess ==
    /\ req.pc = "preprocess"
    /\ LET r == PreprocessStep(image_processor, req)
       IN  image_processor' = r.self /\ req' = r.q
    /\ UNCHANGED <<last_get, peer>>

Predict ==
    /\ req.pc = "predict"
    /\ \E fwd \in ForwardOutcomes :
          LET r == PredictStep(image_processor, req, fwd)
          IN  image_processor' = r.self /\ req' = r.q
    /\ UNCHANGED <<last_get, peer>>

Assemble ==
    /\ req.pc = "assemble"
    /\ LET r == AssembleStep(image_processor, req)
       IN  image_processor' = r.self /\ req' = r.q
    /\ UNCHANGED <<last_get, peer>>

\* the answer has been sent and the handler returns: the upload and every
\* local of the call are dropped
Respond ==
    /\ req.pc = "done"
    /\ req' = IdleRequest
    /\ UNCHANGED <<image_processor, last_get, peer>>

HealthCheck ==
    /\ LET r == health_check(image_processor)
       IN  image_processor' = r.self /\ last_get' = Some(r.q)
    /\ UNCHANGED <<req, peer>>

GetModelInfo ==
    /\ LET r == get_model_info(image_processor)
       IN  image_processor' = r.self /\ last_get' = Some(r.q)
    /\ UNCHANGED <<req, peer>>

Next ==
    \/ Receive
    \/ ReadFile
    \/ Validate
    \/ Decode
    \/ ExtractInfo
    \/ CalcStats
    \/ Preprocess
    \/ Predict
    \/ Assemble
    \/ Respond
    \/ HealthCheck
    \/ GetModelInfo

Spec == Init /\ [][Next]_vars

(***************************************************************************)
(* Two /predict requests in flight on the one ImageProcessor instance      *)
(***************************************************************************)
ConcContentTypes == {"image/jpeg", "image/bmp", "text/plain"}

ConcPayloads ==
    {EmptyPayload,
     [kind |-> "text", size |-> 25, pix |-> NoPixels],
     [kind |-> "image", size |-> 25,
      pix |-> [format |-> "PNG", mode |-> "RGB", width |-> 512, height |-> 64, level |-> 255]]}

ConcForwardOutcomes ==
    {f \in ForwardOutcomes :
        \/ f.kind = "raise"
        \/ f.vec \in {<<7, 2, 1>>, <<0, 0, 10>>, <<11, 0, 0>>, <<0, 5, 0, 5>>}}

\* the next step of the handling of q, by its position
StepOf(self, q, fwd) ==
    CASE q.pc = "read" -> ReadStep(self, q)
      [] q.pc = "validate" -> ValidateStep(self, q)
      [] q.pc = "decode" -> DecodeStep(self, q)
      [] q.pc = "extract_image_info" -> ExtractInfoStep(self, q)
      [] q.pc = "calculate_image_stats" -> CalcStatsStep(self, q)
      [] q.pc = "preprocess" -> PreprocessStep(self, q)
      [] q.pc = "predict" -> PredictStep(self, q, fwd)
      [] q.pc = "assemble" -> AssembleStep(self, q)
      [] OTHER -> Ret(self, IdleRequest)

ReqArrives ==
    /\ req.pc = "idle"
    /\ \E content_type \in ConcContentTypes, image_data \in ConcPayloads :
          LET r == PredictImageBegin(image_processor, "scan.jpg", content_type, image_data)
          IN  image_processor' = r.self /\ req' = r.q
    /\ UNCHANGED <<last_get, peer>>

ReqAdvances ==
    /\ req.pc # "idle"
    /\ \E fwd \in ConcForwardOutcomes :
          LET r == StepOf(image_processor, req, fwd)
          IN  image_processor' = r.self /\ req' = r.q
    /\ UNCHANGED <<last_get, peer>>

PeerArrives ==
    /\ peer.pc = "idle"
    /\ \E content_type \in ConcContentTypes, image_data \in ConcPayloads :
          LET r == PredictImageBegin(image_processor, "peer.png", content_type, image_data)
          IN  image_processor' = r.self /\ peer' = r.q
    /\ UNCHANGED <<last_get, req>>

PeerAdvances ==
    /\ peer.pc # "idle"
    /\ \E fwd \in ConcForwardOutcomes :
          LET r == StepOf(image_processor, peer, fwd)
          IN  image_processor' = r.self /\ peer' = r.q
    /\ UNCHANGED <<last_get, req>>

ConcNext ==
    \/ ReqArrives
    \/ ReqAdvances
    \/ PeerArrives
    \/ PeerAdvances

SpecConc == Init /\ [][ConcNext]_vars

(***************************************************************************)
(* Properties                                                              *)
(***************************************************************************)
Answered == req.pc = "done" /\ req.response # None

Answer == req.response[1]

AllowedTypes == {"image/jpeg", "image/png", "image/tiff", "image/bmp"}

MaxBytes == 52428800

\* the upload passes the endpoint guards and the validator, and decodes
ValidUpload ==
    /\ req.filename # ""
    /\ req.content_type \in AllowedTypes
    /\ req.image_data.size > 0
    /\ req.image_data.size <= MaxBytes
    /\ req.image_data.kind = "image"

\* C1: a POST /predict whose file has a filename, a declared content type
\* and zero bytes is answered with HTTP 400.
C1_EmptyUploadIs400 ==
    (Answered /\ req.filename # "" /\ req.content_type # "" /\ req.image_data.size = 0)
        => Answer.code = 400

\* C2: an upload with an allowed content type and a size within the limit
\* whose bytes are no image is answered with HTTP 400, never with 500.
C2_UndecodableIs400 ==
    (/\ Answered
     /\ req.filename # ""
     /\ req.content_type \in AllowedTypes
     /\ req.image_data.size > 0
     /\ req.image_data.size <= MaxBytes
     /\ req.image_data.kind = "text")
        => (Answer.code = 400 /\ Answer.code # 500)

\* C3: a declared content type outside the allow-list makes validate_image
\* false; process_image then raises ValueError after the validate stage alone
\* (no decoder, no preprocessing, no model), and POST /predict with such a
\* non-empty upload answers 400 with status "error".
C3_DisallowedTypeRejected ==
    /\ \A ct \in ContentTypes \ AllowedTypes : \A p \in Payloads :
           ~validate_image(ct, p.size)
    /\ (req.content_type \notin AllowedTypes /\ req.trace # <<>>)
           => /\ req.trace = <<"validate">>
              /\ req.pc = "done"
              /\ req.exc.cls = "ValueError"
              /\ req.image = None
              /\ req.preprocessed_image = None
              /\ ~req.forward_called
    /\ (Answered /\ req.content_type \notin AllowedTypes /\ req.image_data.size > 0)
           => (Answer.code = 400 /\ Answer.status = "error")

C3_Witness ==
    /\ Answered
    /\ req.content_type = "text/plain"
    /\ req.image_data.size > 0
    /\ req.trace = <<"validate">>
    /\ Answer.code = 400

\* C4: with the model not loaded, model.predict is never invoked, and every
\* otherwise valid upload ends in RuntimeError, answered with 503.
C4_NotLoadedIs503 ==
    ~image_processor.model_loaded
        => /\ ~req.forward_called
           /\ (Answered /\ ValidUpload)
                  => /\ req.exc.cls = "RuntimeError"
                     /\ Answer.code = 503
                     /\ Answer.body = None

C4_Witness ==
    /\ ~image_processor.model_loaded
    /\ Answered
    /\ ValidUpload
    /\ Answer.code = 503
    /\ Len(req.trace) = 6

\* C5: when model.predict raises, whatever the exception, the request is
\* answered with 500, never 400 or 503, and carries no prediction.
C5_ForwardFailureIs500 ==
    (Answered /\ req.forward_called /\ req.forward.kind = "raise")
        => (Answer.code = 500 /\ Answer.body = None)

Labels == <<"Benign Case", "Malignant Case", "Normal Case">>

\* i is the index of the maximum of v, the lowest one among equals
IsFirstMax(v, i) ==
    /\ i \in DOMAIN v
    /\ \A j \in DOMAIN v : v[j] <= v[i]
    /\ \A j \in DOMAIN v : j < i => v[j] < v[i]

\* C6: for a 3-element model output the returned label is the one at the
\* index of the maximum (the lowest index among equal maxima), confidence is
\* that maximum and probabilities maps each label to the value at its index;
\* for [0.7, 0.2, 0.1] the result is "Benign Case" with confidence 0.7.
C6_LabelIsFirstArgmax ==
    (req.prediction_results # None /\ Len(req.forward.vec) = 3)
        => LET v == req.forward.vec
               d == req.prediction_results[1]
           IN  /\ \E i \in 1..3 :
                      /\ IsFirstMax(v, i)
                      /\ d.prediction = Labels[i]
                      /\ d.confidence = v[i]
               /\ \A i \in 1..3 : d.probabilities[Labels[i]] = v[i]
               /\ v = <<7, 2, 1>> => (d.prediction = "Benign Case" /\ d.confidence = 7)

C6_Witness ==
    /\ req.prediction_results # None
    /\ req.forward.vec = <<7, 2, 1>>
    /\ req.prediction_results[1].prediction = "Benign Case"

\* C7: every 200 answer of /predict carries a confidence between 0 and 1,
\* and a model output whose maximum lies outside [0, 1] is never answered
\* with 200.
C7_ConfidenceInUnitInterval ==
    /\ (Answered /\ Answer.code = 200)
           => LET c == Answer.body[1].prediction_result.confidence
              IN  0 <= c /\ c <= 10
    /\ (Answered /\ req.forward.kind = "return"
          /\ \E i \in DOMAIN req.forward.vec :
                 /\ IsFirstMax(req.forward.vec, i)
                 /\ (req.forward.vec[i] < 0 \/ req.forward.vec[i] > 10))
           => (Answer.code # 200 /\ Answer.body = None)

C7_Witness ==
    /\ Answered
    /\ req.forward.vec = <<11, 0, 0>>
    /\ Len(req.trace) = 7
    /\ Answer.code = 400

SumOfProbabilities(p) == p["Benign Case"] + p["Malignant Case"] + p["Normal Case"]

\* C8 as stated: the probabilities of every 200 answer sum to 1.0.
C8_ProbabilitiesSumToOne ==
    (Answered /\ Answer.code = 200)
        => SumOfProbabilities(Answer.body[1].prediction_result.probabilities) = 10

\* C8, amended: the probabilities of a 200 answer are the first three values
\* of the model's output, unchanged, so their sum is the sum of those three
\* values: 1.0 exactly when the model's three class outputs sum to 1.0.
C8_ProbabilitiesSumAsModelOutput ==
    (Answered /\ Answer.code = 200)
        => LET v == req.forward.vec
               s == SumOfProbabilities(Answer.body[1].prediction_result.probabilities)
           IN  /\ s = v[1] + v[2] + v[3]
               /\ (s = 10) <=> (v[1] + v[2] + v[3] = 10)

C8_Witness ==
    /\ Answered
    /\ Answer.code = 200
    /\ req.forward.vec = <<1, 2, 7>>
    /\ SumOfProbabilities(Answer.body[1].prediction_result.probabilities) = 10

\* the stages of process_image, in the order the pipeline is specified
StageOrder ==
    <<"validate", "decode", "extract_image_info", "calculate_image_stats",
      "preprocess", "predict", "assemble">>

IsPrefix(s, t) ==
    /\ Len(s) <= Len(t)
    /\ \A i \in 1..Len(s) : s[i] = t[i]

\* what the upload and the processor let the call reach: the number of stages
\* after which the first failure, if any, occurs
C9_StagesAllowed ==
    IF req.content_type \notin AllowedTypes \/ req.image_data.size > MaxBytes THEN 1
    ELSE IF req.image_data.kind = "text" THEN 2
    ELSE IF req.image_data.kind = "truncated" THEN 4
    ELSE IF ~image_processor.model_loaded THEN 6
    ELSE 7

\* C9: process_image runs validate, decode, extract_image_info,
\* calculate_image_stats, preprocess, predict, assemble in this order, each at
\* most once; a failed stage is the last one run, the call ends with that
\* failure and an answer without result, and nothing is run again afterwards.
C9_StagesInOrderNoRetry ==
    /\ [](/\ IsPrefix(req.trace, StageOrder)
          /\ Len(req.trace) <= C9_StagesAllowed
          /\ req.exc # NoExc =>
                 /\ req.pc = "done"
                 /\ req.response # None
                 /\ Answer.status = "error"
                 /\ Answer.body = None
          /\ (Answered /\ Answer.code = 200) => req.trace = StageOrder)
    /\ [][/\ Len(req'.trace) <= Len(req.trace) + 1
          /\ req.exc # NoExc => req' = IdleRequest]_req

C9_Witness ==
    /\ Answered
    /\ req.trace = <<"validate", "decode">>
    /\ req.exc.cls = "UnidentifiedImageError"
    /\ Answer.body = None

\* C10: the model is loaded once, at construction; no request changes
\* model_loaded or the model handle, and when loading failed no /predict
\* request is answered with 200.
C10_ModelLoadedOnce ==
    /\ [](/\ image_processor.loads = 1
          /\ image_processor.model_loaded <=> image_processor.model # None
          /\ ~image_processor.model_loaded => ~(Answered /\ Answer.code = 200))
    /\ [][image_processor' = image_processor]_vars

C10_Witness ==
    /\ ~image_processor.model_loaded
    /\ image_processor.model = None
    /\ Answered
    /\ ValidUpload
    /\ Answer.code = 503
    /\ last_get # None

RECURSIVE RunAlone(_, _, _)
\* the request q handled to its answer with no other request in flight
RunAlone(self, q, fwd) ==
    IF q.pc = "done" THEN q
    ELSE LET r == StepOf(self, q, fwd) IN RunAlone(r.self, r.q, fwd)

\* the answered request q is what handling its upload alone on the processor
\* self gives, model.predict behaving as it did for q
SameAsAlone(self, q) ==
    q = RunAlone(self,
                 PredictImageBegin(self, q.filename, q.content_type, q.image_data).q,
                 IF q.forward_called THEN q.forward
                 ELSE [kind |-> "return", exc |-> NoExc, vec |-> <<7, 2, 1>>])

\* C11: with two requests in flight on the shared ImageProcessor, no step of
\* either writes the processor, and in every interleaving each answered
\* request (error kind, or label, confidence and probabilities) is exactly
\* what the same request gives when handled alone.
C11_ConcurrentAsAlone ==
    /\ [](/\ req.pc = "done" => SameAsAlone(image_processor, req)
          /\ peer.pc = "done" => SameAsAlone(image_processor, peer))
    /\ [][image_processor' = image_processor]_<<image_processor, req, peer>>

C11_Witness ==
    /\ req.pc = "done"
    /\ req.response[1].code = 200
    /\ peer.pc = "predict"
    /\ peer.trace # <<>>

\* what the claim says validate_image accepts
Accepted(content_type, file_size) ==
    /\ content_type # ""
    /\ content_type \in AllowedTypes
    /\ file_size <= MaxBytes

\* C12: validate_image(content_type, file_size) is true exactly when
\* content_type is non-empty, is a member of the allow-list and file_size is
\* at most MAX_FILE_SIZE (the maximum itself is accepted, one byte more is
\* not); the validate stage of a request passes exactly in that case and
\* changes nothing but the position of that request.
C12_ValidateExactly ==
    /\ [](/\ \A ct \in ContentTypes \cup AllowedTypes :
                 \A size \in {0, 1, 25, MaxBytes - 1, MaxBytes, MaxBytes + 1} :
                     validate_image(ct, size) <=> Accepted(ct, size)
          /\ Len(req.trace) >= 1 =>
                 (Accepted(req.content_type, req.image_data.size)
                      <=> ~(Len(req.trace) = 1 /\ req.pc = "done")))
    /\ [][req.pc = "validate" =>
              /\ image_processor' = image_processor
              /\ last_get' = last_get
              /\ req'.filename = req.filename
              /\ req'.content_type = req.content_type
              /\ req'.image_data = req.image_data]_req

C12_Witness ==
    /\ req.image_data.size = 52428800
    /\ req.content_type = "image/bmp"
    /\ req.pc = "decode"
    /\ req.trace = <<"validate">>

\* C13: GET /health answers 200 in every reachable state, the model loaded or
\* not, with status "healthy", the service, version and timestamp fields, and
\* a model_loaded field equal to the processor's flag.
C13_HealthAlwaysHealthy ==
    /\ ENABLED HealthCheck
    /\ (last_get # None /\ last_get[1].endpoint = "/health")
           => /\ last_get[1].code = 200
              /\ last_get[1].body.status = "healthy"
              /\ {"service", "version", "timestamp"} \subseteq DOMAIN last_get[1].body
              /\ last_get[1].body.service = "Lung Cancer Detection API"
              /\ last_get[1].body.version = "1.0.0"
              /\ last_get[1].body.model_loaded = image_processor.model_loaded

C13_Witness ==
    /\ ~image_processor.model_loaded
    /\ last_get # None
    /\ last_get[1].endpoint = "/health"
    /\ last_get[1].code = 200
    /\ last_get[1].body.model_loaded = FALSE

\* C14: the tensor produced by preprocess_image has shape
\* [1, target height, target width] = [1, 224, 224] whatever the size and mode
\* of the decoded image, and every value lies in [0, 1]; a 512x512 all-white
\* image has ImageInfo width 512 and height 512 and a tensor of value 1.0.
C14_TensorShapeAndRange ==
    req.preprocessed_image # None
        => LET t == req.preprocessed_image[1]
               white512 == /\ req.image_data.pix.width = 512
                           /\ req.image_data.pix.height = 512
                           /\ req.image_data.pix.level = 255
           IN  /\ t.shape = <<1, 224, 224>>
               /\ t.den > 0
               /\ 0 <= t.num
               /\ t.num <= t.den
               /\ white512 => /\ req.image_info[1].width = 512
                              /\ req.image_info[1].height = 512
                              /\ t.num = t.den

C14_Witness ==
    /\ req.preprocessed_image # None
    /\ req.image_data.pix.mode = "RGB"
    /\ req.image_data.pix.width = 512
    /\ req.image_data.pix.height = 512
    /\ req.image_data.pix.level = 255
    /\ req.preprocessed_image[1] = [shape |-> <<1, 224, 224>>, num |-> 255, den |-> 255]

DeclaredFormat(content_type) ==
    CASE content_type = "image/jpeg" -> "JPEG"
      [] content_type = "image/png" -> "PNG"
      [] content_type = "image/tiff" -> "TIFF"
      [] content_type = "image/bmp" -> "BMP"
      [] OTHER -> ""

\* the upload is valid and decodes as another format than the declared one
FormatDisagrees ==
    /\ ValidUpload
    /\ DeclaredFormat(req.content_type) # req.image_data.pix.format

\* C16: an upload of an allowed declared type whose bytes decode as another
\* container format is not refused for that: it goes through preprocessing
\* and reaches predict, so it can only fail in predict or after, and
\* image_info.format is the decoded format, not the declared one.
C16_FormatMismatchTolerated ==
    FormatDisagrees
        => /\ Answered => Len(req.trace) >= 6
           /\ req.image_info # None
                  => req.image_info[1].format = req.image_data.pix.format
           /\ (Answered /\ Answer.code = 200)
                  => Answer.body[1].image_info.format = req.image_data.pix.format
           /\ (Answered /\ image_processor.model_loaded
                 /\ req.forward.kind = "return" /\ req.forward.vec = <<7, 2, 1>>)
                  => Answer.code = 200

C16_Witness ==
    /\ Answered
    /\ req.content_type = "image/jpeg"
    /\ req.image_data.pix.format = "PNG"
    /\ Answer.code = 200
    /\ Answer.body[1].image_info.format = "PNG"

\* the text of the exception appears in the answer's message
LeaksText(answer, e) == \E i \in DOMAIN answer.message : answer.message[i] = e.msg

\* C17: an exception raised in decode, preprocess or predict that is neither
\* the validator's invalid-input error nor the model-not-loaded error is
\* answered with 500 and a fixed message without the exception's text.
C17_OtherFailuresAreGeneric500 ==
    (/\ Answered
     /\ req.exc # NoExc
     /\ Len(req.trace) >= 2
     /\ Len(req.trace) <= 6
     /\ req.exc # Exc("RuntimeError", "Model not loaded"))
        => /\ Answer.code = 500
           /\ Answer.message = <<"Internal server error during image processing">>
           /\ ~LeaksText(Answer, req.exc)

\* C18 as stated: a prediction is returned only for an output of exactly
\* three entries.
C18_OnlyThreeEntries ==
    req.prediction_results # None => Len(req.forward.vec) = 3

\* C18, amended: predict returns a prediction exactly when the output has at
\* least three entries and its first maximum is among the first three; for an
\* output of fewer than three entries, or one whose maximum lies beyond the
\* third entry, the request fails, and a longer output with its maximum among
\* the first three is accepted with the entries after the third dropped.
C18_PredictionIffMaxAmongFirstThree ==
    (Len(req.trace) >= 6 /\ req.forward.kind = "return")
        => LET v == req.forward.vec
           IN  /\ req.prediction_results # None
                      <=> (Len(v) >= 3 /\ \E i \in 1..3 : IsFirstMax(v, i))
               /\ req.prediction_results = None
                      => (req.pc = "done" /\ req.exc # NoExc /\ Answer.code # 200)
               /\ req.prediction_results # None
                      => \A i \in 1..3 :
                             req.prediction_results[1].probabilities[Labels[i]] = v[i]

C18_Witness ==
    /\ req.prediction_results # None
    /\ req.forward.vec = <<5, 0, 0, 5>>
    /\ Answered
    /\ Answer.code = 200

\* C19: a request that fails validation or decoding is answered with that
\* failure also when the model is not loaded, never with 503; a 503 only
\* comes from the predict stage, after content type, size and bytes were
\* accepted.
C19_ModelCheckComesLast ==
    /\ (Answered /\ Answer.code = 503)
           => /\ Len(req.trace) = 6
              /\ req.exc.cls = "RuntimeError"
              /\ ValidUpload
    /\ (Answered /\ ~image_processor.model_loaded /\ ~ValidUpload)
           => /\ Answer.code # 503
              /\ req.exc.cls # "RuntimeError"
              /\ Len(req.trace) <= 4

C19_Witness ==
    /\ Answered
    /\ ~image_processor.model_loaded
    /\ req.content_type = "image/jpeg"
    /\ req.image_data.kind = "text"
    /\ req.trace = <<"validate", "decode">>
    /\ Answer.code = 500

\* C20: a request with an empty filename, or with a filename and no declared
\* content type, is answered 400 at once: the payload is not read and
\* process_image is not called; with both missing the filename guard answers.
C20_GuardsBeforeRead ==
    /\ []((req.pc # "idle" /\ (req.filename = "" \/ req.content_type = ""))
             => /\ Answered
                /\ Answer.code = 400
                /\ req.trace = <<>>
                /\ Answer.message = IF req.filename = ""
                                    THEN <<"No file provided">>
                                    ELSE <<"Unable to determine file type">>)
    /\ [][req'.pc = "read" =>
              (req.pc = "idle" /\ req'.filename # "" /\ req'.content_type # "")]_req

C20_Witness ==
    /\ Answered
    /\ req.filename = ""
    /\ req.content_type = ""
    /\ req.image_data.size > 0
    /\ Answer.message = <<"No file provided">>

\* the shape of the decoded pixel array of the upload: rows, columns, bands
DecodedShape(pix) ==
    IF pix.mode = "RGB" THEN <<pix.height, pix.width, 3>>
    ELSE <<pix.height, pix.width>>

\* C21: in every successful result image_stats describes the decoded array at
\* full resolution, before resizing and normalisation: its shape is the
\* decoded array's shape, its mean is on the 0..255 scale and size_bytes is
\* the payload length; the statistics exist before the tensor does, and the
\* tensor is determined by the decoded image and the target size alone,
\* whatever image_stats and image_info hold.
C21_StatsFromDecodedArray ==
    /\ req.preprocessed_image # None
           => /\ req.image_stats # None
              /\ req.image_info # None
              /\ req.preprocessed_image[1] =
                     [shape |-> <<1, 224, 224>>, num |-> req.image_data.pix.level, den |-> 255]
    /\ (Answered /\ Answer.code = 200)
           => LET st == Answer.body[1].image_stats
                  pix == req.image_data.pix
              IN  /\ st.shape = DecodedShape(pix)
                  /\ st.size_bytes = req.image_data.size
                  /\ st.mean_intensity = pix.level
                  /\ st.std_intensity = 0
                  /\ st = req.image_stats[1]
                  /\ req.trace[4] = "calculate_image_stats"
                  /\ req.trace[5] = "preprocess"

C21_Witness ==
    /\ Answered
    /\ Answer.code = 200
    /\ req.image_data.size = 52428800
    /\ req.image_data.pix.mode = "RGB"
    /\ req.image_data.pix.height = 64
    /\ Answer.body[1].image_stats.shape = <<64, 512, 3>>
    /\ Answer.body[1].image_stats.size_bytes = 52428800
    /\ req.preprocessed_image[1].shape = <<1, 224, 224>>

====
